---- MODULE Spec2Model ----
(***************************************************************************)
(* Model of the graph crate (src/src/lib.rs): the identity-keyed Graph,    *)
(* backed by a generational arena and three hash maps, and the             *)
(* content-keyed GraphMap built on it; the traversals of                   *)
(* src/src/traversal.rs (bfs, connected_components, dijkstra) and the      *)
(* text format of src/src/main.rs (read_graph, write_graph).               *)
(*                                                                         *)
(* Option<T> is modelled as a sequence: None is << >>, Some(x) is <<x>>.  *)
(* A HashMap is a function whose DOMAIN is its key set; a HashSet is a set.*)
(* A Rust panic (a failed unwrap or a failed map index) is an outcome with *)
(* panicked = TRUE that keeps every write made before the panicking line.  *)
(***************************************************************************)
EXTENDS Integers, Sequences, FiniteSets, TLC

VARIABLES
    api,      \* which object the program constructed: "Graph" or "GraphMap"
    graph,    \* the Graph struct: arena, inbound, outbound, edges
    map,      \* GraphMap.map: payload -> VertexId
    fault,    \* TRUE once a call has panicked
    last,     \* the last call: its name, arguments and return value
    issued,   \* the VertexIds Graph::add_vertex has returned, in order
    removed,  \* [id, value] of every vertex Graph::remove_vertex was called on
    steps,    \* number of calls made
    run       \* the traversal in progress on the GraphMap: its position,
              \* arguments, locals and return value

vars == <<api, graph, map, fault, last, issued, removed, steps, run>>

----------------------------------------------------------------------------
(* Bounds of the model *)

\* Number of API calls in a run.
MaxOps == 5

\* Number of calls in a run of SpecDeep, which makes Graph calls only and
\* with a single vertex payload and a single edge payload.
MaxDeepOps == 7

\* Edge payloads (weights) are 1..MaxWeight.
MaxWeight == 2

\* The vertex payloads: two distinguishable values.  A Graph may hold the
\* same payload in several vertices; a GraphMap holds each at most once.
Payloads == {1, 2}

Weights == 1..MaxWeight

----------------------------------------------------------------------------
(* Option and HashMap helpers *)

None == << >>

Some(x) == <<x>>

\* HashMap::insert(k, v)
Put(f, k, v) == [x \in (DOMAIN f) \cup {k} |-> IF x = k THEN v ELSE f[x]]

\* HashMap::remove(&k)
Drop(f, k) == [x \in (DOMAIN f) \ {k} |-> f[x]]

\* HashMap::entry(k).or_default() for a map of sets: the map with k present
EntryOrDefault(f, k) == IF k \in DOMAIN f THEN f ELSE Put(f, k, {})

EmptyMap == [x \in {} |-> {}]

----------------------------------------------------------------------------
(* generational_arena::Arena, as Graph uses it.  A slot is Free (linked    *)
(* into the free list) or Occupied (stamped with the arena's generation    *)
(* at insertion).  An Index is [index, generation].                        *)

\* Arena::new() is Arena::with_capacity(DEFAULT_CAPACITY).
DEFAULT_CAPACITY == 4

FreeEntry(next) == [tag |-> "Free", next_free |-> next]

OccupiedEntry(gen, value) == [tag |-> "Occupied", generation |-> gen, value |-> value]

\* Arena::reserve(additional): push `additional` free slots, chained in
\* front of the old free list.
ArenaReserve(a, additional) ==
    LET start == a.n
        end   == a.n + additional
    IN  [a EXCEPT
            !.items = [i \in 0..(end - 1) |->
                         IF i < start THEN a.items[i]
                         ELSE IF i = end - 1 THEN FreeEntry(a.free_list_head)
                         ELSE FreeEntry(Some(i + 1))],
            !.n = end,
            !.free_list_head = Some(start)]

ArenaNew ==
    ArenaReserve([items |-> [i \in {} |-> FreeEntry(None)], n |-> 0,
                  generation |-> 0, free_list_head |-> None, len |-> 0],
                 DEFAULT_CAPACITY)

\* Arena::insert(value): take the head of the free list (growing the arena
\* by its own length when the list is empty) and stamp the slot with the
\* current generation.  Yields the new arena and the Index.
ArenaInsert(a, value) ==
    LET b == IF a.free_list_head = None THEN ArenaReserve(a, a.n) ELSE a
        i == b.free_list_head[1]
    IN  [arena |-> [b EXCEPT
                      !.items[i] = OccupiedEntry(b.generation, value),
                      !.free_list_head = b.items[i].next_free,
                      !.len = b.len + 1],
         id |-> [index |-> i, generation |-> b.generation]]

\* Whether Index id names an occupied slot of the same generation.
ArenaContains(a, id) ==
    /\ id.index < a.n
    /\ a.items[id.index].tag = "Occupied"
    /\ a.items[id.index].generation = id.generation

\* Arena::get(id)
ArenaGet(a, id) == IF ArenaContains(a, id) THEN Some(a.items[id.index].value) ELSE None

\* Arena::remove that frees the slot without bumping the generation.
ArenaRemove_keeps_generation(a, id) ==
    IF ArenaContains(a, id)
    THEN [a EXCEPT
            !.items[id.index] = FreeEntry(a.free_list_head),
            !.free_list_head = Some(id.index),
            !.len = a.len - 1]
    ELSE a

\* Arena::remove(id): free the slot, bump the arena generation, push the
\* slot on the free list.  Nothing happens for a stale id.
ArenaRemove(a, id) ==
    IF ArenaContains(a, id)
    THEN [a EXCEPT
            !.items[id.index] = FreeEntry(a.free_list_head),
            !.generation = a.generation + 1,
            !.free_list_head = Some(id.index),
            !.len = a.len - 1]
    ELSE a

\* The ids of the occupied slots (Arena::iter()).
ArenaIds(a) ==
    {[index |-> i, generation |-> a.items[i].generation] :
        i \in {j \in 0..(a.n - 1) : a.items[j].tag = "Occupied"}}

----------------------------------------------------------------------------
(* Graph<V, E> *)

\* Graph::new()
Graph_new == [arena |-> ArenaNew, inbound |-> EmptyMap, outbound |-> EmptyMap,
              edges |-> EmptyMap]

\* Graph::add_vertex that creates the inbound entry but not the outbound one.
Graph_add_vertex_no_outbound(g, vertex) ==
    LET r == ArenaInsert(g.arena, vertex)
    IN  [graph |-> [g EXCEPT
                      !.arena = r.arena,
                      !.inbound = EntryOrDefault(g.inbound, r.id)],
         id |-> r.id]

\* Graph::add_vertex(vertex) -> VertexId
Graph_add_vertex(g, vertex) ==
    LET r == ArenaInsert(g.arena, vertex)
    IN  [graph |-> [g EXCEPT
                      !.arena = r.arena,
                      !.inbound = EntryOrDefault(g.inbound, r.id),
                      !.outbound = EntryOrDefault(g.outbound, r.id)],
         id |-> r.id]

\* Graph::get_vertex(vertex) -> Option<&V>
Graph_get_vertex(g, vertex) == ArenaGet(g.arena, vertex)

\* Graph::add_edge that records the edge and the outbound entry but not the
\* inbound one.
Graph_add_edge_no_inbound(g, from, to, weight) ==
    LET out == EntryOrDefault(g.outbound, from)
    IN  [g EXCEPT
            !.edges = Put(g.edges, <<from, to>>, weight),
            !.outbound = [out EXCEPT ![from] = out[from] \cup {to}],
            !.inbound = EntryOrDefault(g.inbound, to)]

\* Graph::add_edge((from, to), weight)
Graph_add_edge(g, from, to, weight) ==
    LET out == EntryOrDefault(g.outbound, from)
        inb == EntryOrDefault(g.inbound, to)
    IN  [g EXCEPT
            !.edges = Put(g.edges, <<from, to>>, weight),
            !.outbound = [out EXCEPT ![from] = out[from] \cup {to}],
            !.inbound = [inb EXCEPT ![to] = inb[to] \cup {from}]]

\* Graph::get_edge(edge) -> Option<&E>
Graph_get_edge(g, from, to) ==
    IF <<from, to>> \in DOMAIN g.edges THEN Some(g.edges[<<from, to>>]) ELSE None

\* The first loop of Graph::remove_vertex without inbound[to].remove(from).
RemoveOutboundLoop_keeps_inbound(g, from, S) ==
    [g EXCEPT
        !.edges = [e \in (DOMAIN g.edges) \ {<<from, to>> : to \in S} |-> g.edges[e]]]

\* The first loop of Graph::remove_vertex run over the targets in S:
\* edges.remove((from, to)) and inbound[to].remove(from).
RemoveOutboundLoop(g, from, S) ==
    [g EXCEPT
        !.edges = [e \in (DOMAIN g.edges) \ {<<from, to>> : to \in S} |-> g.edges[e]],
        !.inbound = [k \in DOMAIN g.inbound |->
                        IF k \in S THEN g.inbound[k] \ {from} ELSE g.inbound[k]]]

\* The second loop of Graph::remove_vertex: edges.remove((from, to)) for
\* every from in inbound[to].  outbound[from] is not touched.
RemoveInboundLoop(g, to) ==
    [g EXCEPT
        !.edges = [e \in (DOMAIN g.edges) \ {<<from, to>> : from \in g.inbound[to]}
                     |-> g.edges[e]]]

\* Graph::remove_vertex(vertex): the set of outcomes [graph, panicked].
\* The HashSet iteration order is arbitrary, so when some target of the
\* first loop has no inbound entry the loop has handled any set S of the
\* other targets before inbound.get_mut(&to).unwrap() panics on it (the
\* edges.remove of that target has run).
Graph_remove_vertex(g, vertex) ==
    LET g1 == [g EXCEPT !.arena = ArenaRemove(g.arena, vertex)]
    IN  IF vertex \notin DOMAIN g1.outbound
        THEN {[graph |-> g1, panicked |-> TRUE]}
        ELSE
          LET out  == g1.outbound[vertex]
              good == {to \in out : to \in DOMAIN g1.inbound}
              bad  == out \ good
          IN  IF bad # {}
              THEN {[graph |-> RemoveOutboundLoop(g1, vertex, S \cup {b}),
                     panicked |-> TRUE] : S \in SUBSET good, b \in bad}
              ELSE
                LET g2 == RemoveOutboundLoop(g1, vertex, out)
                IN  IF vertex \notin DOMAIN g2.inbound
                    THEN {[graph |-> g2, panicked |-> TRUE]}
                    ELSE
                      LET g3 == RemoveInboundLoop(g2, vertex)
                      IN  {[graph |-> [g3 EXCEPT
                                         !.inbound = Drop(g3.inbound, vertex),
                                         !.outbound = Drop(g3.outbound, vertex)],
                            panicked |-> FALSE]}

\* Graph::remove_edge((from, to)): the outcome [graph, panicked].
Graph_remove_edge(g, from, to) ==
    LET g1 == [g EXCEPT !.edges = Drop(g.edges, <<from, to>>)]
    IN  IF from \notin DOMAIN g1.outbound
        THEN [graph |-> g1, panicked |-> TRUE]
        ELSE
          LET g2 == [g1 EXCEPT !.outbound[from] = g1.outbound[from] \ {to}]
          IN  IF to \notin DOMAIN g2.inbound
              THEN [graph |-> g2, panicked |-> TRUE]
              ELSE [graph |-> [g2 EXCEPT !.inbound[to] = g2.inbound[to] \ {from}],
                    panicked |-> FALSE]

\* Graph::adj_out(vertex) panics: some target of outbound[vertex] has no
\* entry in the edge map (edges.get(..).unwrap()).
Graph_adj_out_panics(g, vertex) ==
    /\ vertex \in DOMAIN g.outbound
    /\ \E target \in g.outbound[vertex] : <<vertex, target>> \notin DOMAIN g.edges

\* Graph::adj_out(vertex) -> Option<sequence of (VertexId, &E)>, when it
\* does not panic; the sequence, of arbitrary order, as a set.
Graph_adj_out(g, vertex) ==
    IF vertex \notin DOMAIN g.outbound THEN None
    ELSE Some({<<target, g.edges[<<vertex, target>>]>> : target \in g.outbound[vertex]})

\* Graph::adj_in(vertex) panics.
Graph_adj_in_panics(g, vertex) ==
    /\ vertex \in DOMAIN g.inbound
    /\ \E target \in g.inbound[vertex] : <<target, vertex>> \notin DOMAIN g.edges

\* Graph::adj_in(vertex), when it does not panic.
Graph_adj_in(g, vertex) ==
    IF vertex \notin DOMAIN g.inbound THEN None
    ELSE Some({<<target, g.edges[<<target, vertex>>]>> : target \in g.inbound[vertex]})

\* Graph::indegree that counts the outbound set.
Graph_indegree_counts_outbound(g, vertex) ==
    IF vertex \in DOMAIN g.outbound THEN Cardinality(g.outbound[vertex]) ELSE 0

\* Graph::indegree(vertex)
Graph_indegree(g, vertex) ==
    IF vertex \in DOMAIN g.inbound THEN Cardinality(g.inbound[vertex]) ELSE 0

\* Graph::outdegree(vertex)
Graph_outdegree(g, vertex) ==
    IF vertex \in DOMAIN g.outbound THEN Cardinality(g.outbound[vertex]) ELSE 0

\* Graph::vertex_count()
Graph_vertex_count(g) == g.arena.len

\* Graph::edge_count()
Graph_edge_count(g) == Cardinality(DOMAIN g.edges)

----------------------------------------------------------------------------
(* GraphMap<V, E>: a record [graph, map] *)

\* GraphMap::new()
GraphMap_new == [graph |-> Graph_new, map |-> EmptyMap]

\* GraphMap::add_or_get_vertex that inserts without looking the payload up.
GraphMap_add_or_get_vertex_always_adds(gm, vertex) ==
    LET r == Graph_add_vertex(gm.graph, vertex)
    IN  [gm |-> [graph |-> r.graph, map |-> Put(gm.map, vertex, r.id)],
         id |-> r.id]

\* GraphMap::add_or_get_vertex(vertex) -> VertexId
GraphMap_add_or_get_vertex(gm, vertex) ==
    IF vertex \in DOMAIN gm.map
    THEN [gm |-> gm, id |-> gm.map[vertex]]
    ELSE LET r == Graph_add_vertex(gm.graph, vertex)
         IN  [gm |-> [graph |-> r.graph, map |-> Put(gm.map, vertex, r.id)],
              id |-> r.id]

\* GraphMap::add_vertex that inserts without looking the payload up.
GraphMap_add_vertex_always_inserts(gm, vertex) ==
    LET r == Graph_add_vertex(gm.graph, vertex)
    IN  [graph |-> r.graph, map |-> Put(gm.map, vertex, r.id)]

\* GraphMap::add_vertex(vertex)
GraphMap_add_vertex(gm, vertex) ==
    IF vertex \in DOMAIN gm.map
    THEN gm
    ELSE LET r == Graph_add_vertex(gm.graph, vertex)
         IN  [graph |-> r.graph, map |-> Put(gm.map, vertex, r.id)]

\* GraphMap::add_edge((from, to), weight)
GraphMap_add_edge(gm, from, to, weight) ==
    LET r1 == GraphMap_add_or_get_vertex(gm, from)
        r2 == GraphMap_add_or_get_vertex(r1.gm, to)
    IN  [r2.gm EXCEPT !.graph = Graph_add_edge(r2.gm.graph, r1.id, r2.id, weight)]

\* GraphMap::get_edge((from, to)) -> Option<&E>
GraphMap_get_edge(gm, from, to) ==
    IF from \notin DOMAIN gm.map THEN None
    ELSE IF to \notin DOMAIN gm.map THEN None
    ELSE Graph_get_edge(gm.graph, gm.map[from], gm.map[to])

\* GraphMap::remove_vertex that removes the vertex from the graph but leaves
\* its key in the map.
GraphMap_remove_vertex_keeps_key(gm, vertex) ==
    IF vertex \notin DOMAIN gm.map
    THEN {[gm |-> gm, ret |-> FALSE, panicked |-> FALSE]}
    ELSE {[gm |-> [graph |-> r.graph, map |-> gm.map],
           ret |-> TRUE, panicked |-> r.panicked] :
             r \in Graph_remove_vertex(gm.graph, gm.map[vertex])}

\* GraphMap::remove_vertex(vertex) -> bool: the set of outcomes
\* [gm, ret, panicked].  The map entry is removed before the graph call.
GraphMap_remove_vertex(gm, vertex) ==
    IF vertex \notin DOMAIN gm.map
    THEN {[gm |-> gm, ret |-> FALSE, panicked |-> FALSE]}
    ELSE {[gm |-> [graph |-> r.graph, map |-> Drop(gm.map, vertex)],
           ret |-> TRUE, panicked |-> r.panicked] :
             r \in Graph_remove_vertex(gm.graph, gm.map[vertex])}

\* GraphMap::remove_edge((from, to)) -> bool: the outcome [gm, ret, panicked].
GraphMap_remove_edge(gm, from, to) ==
    IF from \notin DOMAIN gm.map THEN [gm |-> gm, ret |-> FALSE, panicked |-> FALSE]
    ELSE IF to \notin DOMAIN gm.map THEN [gm |-> gm, ret |-> FALSE, panicked |-> FALSE]
    ELSE LET r == Graph_remove_edge(gm.graph, gm.map[from], gm.map[to])
         IN  [gm |-> [gm EXCEPT !.graph = r.graph], ret |-> TRUE,
              panicked |-> r.panicked]

\* GraphMap::adj_out(vertex) panics: Graph::adj_out does, or a neighbour
\* identity is no longer live (get_vertex(id).unwrap()).
GraphMap_adj_out_panics(gm, vertex) ==
    /\ vertex \in DOMAIN gm.map
    /\ \/ Graph_adj_out_panics(gm.graph, gm.map[vertex])
       \/ /\ gm.map[vertex] \in DOMAIN gm.graph.outbound
          /\ \E id \in gm.graph.outbound[gm.map[vertex]] :
                Graph_get_vertex(gm.graph, id) = None

\* GraphMap::adj_out(vertex) -> Option<sequence of (&V, &E)>, when it does
\* not panic; the sequence as a set.
GraphMap_adj_out(gm, vertex) ==
    IF vertex \notin DOMAIN gm.map THEN None
    ELSE LET r == Graph_adj_out(gm.graph, gm.map[vertex])
         IN  IF r = None THEN None
             ELSE Some({<<Graph_get_vertex(gm.graph, p[1])[1], p[2]>> : p \in r[1]})

\* GraphMap::adj_in(vertex) panics.
GraphMap_adj_in_panics(gm, vertex) ==
    /\ vertex \in DOMAIN gm.map
    /\ \/ Graph_adj_in_panics(gm.graph, gm.map[vertex])
       \/ /\ gm.map[vertex] \in DOMAIN gm.graph.inbound
          /\ \E id \in gm.graph.inbound[gm.map[vertex]] :
                Graph_get_vertex(gm.graph, id) = None

\* GraphMap::adj_in(vertex), when it does not panic.
GraphMap_adj_in(gm, vertex) ==
    IF vertex \notin DOMAIN gm.map THEN None
    ELSE LET r == Graph_adj_in(gm.graph, gm.map[vertex])
         IN  IF r = None THEN None
             ELSE Some({<<Graph_get_vertex(gm.graph, p[1])[1], p[2]>> : p \in r[1]})

\* Whether GraphMap::indegree(vertex) panics: self.map[&vertex] on a payload
\* the map does not hold.
GraphMap_indegree_panics(gm, vertex) == vertex \notin DOMAIN gm.map

\* GraphMap::indegree(vertex), when it does not panic.
GraphMap_indegree(gm, vertex) == Graph_indegree(gm.graph, gm.map[vertex])

\* Whether GraphMap::outdegree(vertex) panics.
GraphMap_outdegree_panics(gm, vertex) == vertex \notin DOMAIN gm.map

\* GraphMap::outdegree(vertex), when it does not panic.
GraphMap_outdegree(gm, vertex) == Graph_outdegree(gm.graph, gm.map[vertex])

\* GraphMap::vertex_count()
GraphMap_vertex_count(gm) == Graph_vertex_count(gm.graph)

\* GraphMap::edge_count()
GraphMap_edge_count(gm) == Graph_edge_count(gm.graph)

\* GraphMap::vertices(): the keys of the map
GraphMap_vertices(gm) == DOMAIN gm.map

----------------------------------------------------------------------------
(* The program: a sequence of calls on a Graph or on a GraphMap *)

\* What the last call observed before it ran: the payload get_edge gave
\* for its pair, and which of its payload arguments the GraphMap knew.
Old(edge, known) == [edge |-> edge, known |-> known]

Call(op, a, b, w, ret, old) ==
    [op |-> op, a |-> a, b |-> b, w |-> w, ret |-> ret, old |-> old]

NoCall == Call("new", None, None, None, None, Old(None, {}))

\* A traversal call (traversal.rs): which function, where it stands, its
\* arguments (followed, for bfs and connected_components, by the iteration
\* order it met), its local variables and, once it has returned, its result.
Run(op, pc, args, locals, ret) ==
    [op |-> op, pc |-> pc, args |-> args, locals |-> locals, ret |-> ret]

\* No traversal has been called.
Idle == Run("none", "idle", << >>, << >>, None)

\* The identities a caller of Graph may pass: the live ones.
LiveIds == ArenaIds(graph.arena)

\* The GraphMap the program holds.
GM == [graph |-> graph, map |-> map]

Init ==
    /\ api \in {"Graph", "GraphMap"}
    /\ graph = Graph_new
    /\ map = EmptyMap
    /\ fault = FALSE
    /\ last = NoCall
    /\ issued = << >>
    /\ removed = {}
    /\ steps = 0
    /\ run = Idle

GraphAddVertex(vertex) ==
    /\ api = "Graph" /\ ~fault
    /\ LET r == Graph_add_vertex(graph, vertex)
       IN  /\ graph' = r.graph
           /\ issued' = Append(issued, r.id)
           /\ last' = Call("add_vertex", Some(vertex), None, None, Some(r.id),
                           Old(None, {}))
    /\ steps' = steps + 1
    /\ UNCHANGED <<api, map, fault, removed, run>>

GraphAddEdge(from, to, weight) ==
    /\ api = "Graph" /\ ~fault
    /\ graph' = Graph_add_edge(graph, from, to, weight)
    /\ last' = Call("add_edge", Some(from), Some(to), Some(weight), None,
                    Old(Graph_get_edge(graph, from, to), {}))
    /\ steps' = steps + 1
    /\ UNCHANGED <<api, map, fault, issued, removed, run>>

GraphRemoveVertex(vertex) ==
    /\ api = "Graph" /\ ~fault
    /\ \E r \in Graph_remove_vertex(graph, vertex) :
          /\ graph' = r.graph
          /\ fault' = r.panicked
    /\ removed' = removed \cup {[id |-> vertex, value |-> Graph_get_vertex(graph, vertex)]}
    /\ last' = Call("remove_vertex", Some(vertex), None, None, None, Old(None, {}))
    /\ steps' = steps + 1
    /\ UNCHANGED <<api, map, issued, run>>

GraphRemoveEdge(from, to) ==
    /\ api = "Graph" /\ ~fault
    /\ LET r == Graph_remove_edge(graph, from, to)
       IN  /\ graph' = r.graph
           /\ fault' = r.panicked
    /\ last' = Call("remove_edge", Some(from), Some(to), None, None,
                    Old(Graph_get_edge(graph, from, to), {}))
    /\ steps' = steps + 1
    /\ UNCHANGED <<api, map, issued, removed, run>>

\* The ids Graph::add_vertex returns during a GraphMap call on the payloads
\* `vertices` (one for add_vertex, two for add_edge), in order of issue:
\* add_or_get_vertex(from) runs before add_or_get_vertex(to).
NewIds(g, vertices) ==
    LET r1 == GraphMap_add_or_get_vertex(g, vertices[1])
        r2 == GraphMap_add_or_get_vertex(r1.gm, vertices[Len(vertices)])
    IN  (IF vertices[1] \in DOMAIN g.map THEN << >> ELSE <<r1.id>>)
        \o (IF vertices[Len(vertices)] \in DOMAIN r1.gm.map THEN << >> ELSE <<r2.id>>)

MapAddVertex(vertex) ==
    /\ api = "GraphMap" /\ ~fault
    /\ LET r == GraphMap_add_vertex(GM, vertex)
       IN  /\ graph' = r.graph
           /\ map' = r.map
    /\ issued' = issued \o NewIds(GM, <<vertex>>)
    /\ last' = Call("add_vertex", Some(vertex), None, None, None,
                    Old(None, {vertex} \cap DOMAIN map))
    /\ steps' = steps + 1
    /\ UNCHANGED <<api, fault, removed, run>>

MapAddEdge(from, to, weight) ==
    /\ api = "GraphMap" /\ ~fault
    /\ LET r == GraphMap_add_edge(GM, from, to, weight)
       IN  /\ graph' = r.graph
           /\ map' = r.map
    /\ issued' = issued \o NewIds(GM, <<from, to>>)
    /\ last' = Call("add_edge", Some(from), Some(to), Some(weight), None,
                    Old(GraphMap_get_edge(GM, from, to), {from, to} \cap DOMAIN map))
    /\ steps' = steps + 1
    /\ UNCHANGED <<api, fault, removed, run>>

MapRemoveVertex(vertex) ==
    /\ api = "GraphMap" /\ ~fault
    /\ \E r \in GraphMap_remove_vertex(GM, vertex) :
          /\ graph' = r.gm.graph
          /\ map' = r.gm.map
          /\ fault' = r.panicked
          /\ last' = Call("remove_vertex", Some(vertex), None, None,
                          IF r.panicked THEN None ELSE Some(r.ret),
                          Old(None, {vertex} \cap DOMAIN map))
    /\ removed' = IF vertex \in DOMAIN map
                  THEN removed \cup {[id |-> map[vertex], value |-> Some(vertex)]}
                  ELSE removed
    /\ steps' = steps + 1
    /\ UNCHANGED <<api, issued, run>>

MapRemoveEdge(from, to) ==
    /\ api = "GraphMap" /\ ~fault
    /\ LET r == GraphMap_remove_edge(GM, from, to)
       IN  /\ graph' = r.gm.graph
           /\ map' = r.gm.map
           /\ fault' = r.panicked
           /\ last' = Call("remove_edge", Some(from), Some(to), None,
                           IF r.panicked THEN None ELSE Some(r.ret),
                           Old(GraphMap_get_edge(GM, from, to), {from, to} \cap DOMAIN map))
    /\ steps' = steps + 1
    /\ UNCHANGED <<api, issued, removed, run>>

Next ==
    \/ \E vertex \in Payloads :
          steps < MaxOps /\ GraphAddVertex(vertex)
    \/ \E from \in LiveIds, to \in LiveIds, weight \in Weights :
          steps < MaxOps /\ GraphAddEdge(from, to, weight)
    \/ \E vertex \in LiveIds :
          steps < MaxOps /\ GraphRemoveVertex(vertex)
    \/ \E from \in LiveIds, to \in LiveIds :
          steps < MaxOps /\ GraphRemoveEdge(from, to)
    \/ \E vertex \in Payloads :
          steps < MaxOps /\ MapAddVertex(vertex)
    \/ \E from \in Payloads, to \in Payloads, weight \in Weights :
          steps < MaxOps /\ MapAddEdge(from, to, weight)
    \/ \E vertex \in Payloads :
          steps < MaxOps /\ MapRemoveVertex(vertex)
    \/ \E from \in Payloads, to \in Payloads :
          steps < MaxOps /\ MapRemoveEdge(from, to)

Spec == Init /\ [][Next]_vars

\* Longer runs of Graph calls alone, with one vertex payload and one edge
\* payload (the payload values do not steer any Graph operation).
InitDeep == Init /\ api = "Graph"

NextDeep ==
    \/ steps < MaxDeepOps /\ GraphAddVertex(1)
    \/ \E from \in LiveIds, to \in LiveIds :
          steps < MaxDeepOps /\ GraphAddEdge(from, to, 1)
    \/ \E vertex \in LiveIds :
          steps < MaxDeepOps /\ GraphRemoveVertex(vertex)
    \/ \E from \in LiveIds, to \in LiveIds :
          steps < MaxDeepOps /\ GraphRemoveEdge(from, to)

SpecDeep == InitDeep /\ [][NextDeep]_vars

----------------------------------------------------------------------------
(* Properties *)

\* Every VertexId that has been issued.
IssuedIds == {issued[i] : i \in 1..Len(issued)}

\* The three indexes of g agree: every key (u,v) of the edge map has v in
\* outbound[u] and u in inbound[v], and every pair named by an adjacency
\* set is a key of the edge map.
IndexesAgree(g) ==
    /\ \A e \in DOMAIN g.edges :
          /\ e[1] \in DOMAIN g.outbound /\ e[2] \in g.outbound[e[1]]
          /\ e[2] \in DOMAIN g.inbound /\ e[1] \in g.inbound[e[2]]
    /\ \A u \in DOMAIN g.outbound : \A v \in g.outbound[u] : <<u, v>> \in DOMAIN g.edges
    /\ \A v \in DOMAIN g.inbound : \A u \in g.inbound[v] : <<u, v>> \in DOMAIN g.edges

\* C1: in every state a Graph reaches by add_vertex, add_edge, remove_edge
\* and remove_vertex calls made with live identities (and that all
\* returned), the edge map, outbound and inbound agree in both directions.
C1_IndexesAgree == (api = "Graph" /\ ~fault) => IndexesAgree(graph)

\* C2: in every state of a GraphMap the content index is one-to-one onto
\* the live vertices: each key maps to a live identity whose stored payload
\* is that key, each live vertex's payload is a key mapping to its identity,
\* and vertex_count() is the number of keys.
C2_ContentIndexExact ==
    api = "GraphMap" =>
        /\ \A v \in DOMAIN map : Graph_get_vertex(graph, map[v]) = Some(v)
        /\ \A id \in ArenaIds(graph.arena) :
              LET v == Graph_get_vertex(graph, id)[1]
              IN  v \in DOMAIN map /\ map[v] = id
        /\ GraphMap_vertex_count(GM) = Cardinality(GraphMap_vertices(GM))

\* C2 witness: a GraphMap from which a known vertex has been removed (the
\* removal returned true) while another vertex is still indexed.
C2_Witness ==
    /\ api = "GraphMap"
    /\ last.op = "remove_vertex" /\ last.ret = Some(TRUE)
    /\ DOMAIN map # {}

\* C3: after remove_vertex(v), get_vertex(v) is absent and no edge between
\* v and any other vertex w is left: get_edge((v,w)) and get_edge((w,v))
\* are absent.  On a GraphMap the same through payloads.  Stated of the
\* state the call leaves, however it ended.
C3_RemovalCascade ==
    last.op = "remove_vertex" =>
        /\ api = "Graph" =>
              LET v == last.a[1]
              IN  /\ Graph_get_vertex(graph, v) = None
                  /\ \A w \in IssuedIds \ {v} :
                        /\ Graph_get_edge(graph, v, w) = None
                        /\ Graph_get_edge(graph, w, v) = None
        /\ (api = "GraphMap" /\ last.ret = Some(TRUE)) =>
              LET v == last.a[1]
              IN  \A w \in Payloads \ {v} :
                     /\ GraphMap_get_edge(GM, v, w) = None
                     /\ GraphMap_get_edge(GM, w, v) = None

\* C3, of the calls that returned only: the removal cascade holds after
\* every remove_vertex that did not panic.
C3_ReturnedRemovalCascade == ~fault => C3_RemovalCascade

\* C4: immediately after add_edge((u,v), p): v is in outbound[u], u is in
\* inbound[v] and get_edge((u,v)) returns p; when the pair already had an
\* edge its payload is replaced and edge_count() is unchanged, otherwise
\* edge_count() grows by one.
C4_AddEdgePost ==
    [][(last'.op = "add_edge" /\ steps' = steps + 1) =>
          LET u == IF api = "Graph" THEN last'.a[1] ELSE map'[last'.a[1]]
              v == IF api = "Graph" THEN last'.b[1] ELSE map'[last'.b[1]]
              existed == IF api = "Graph"
                         THEN Graph_get_edge(graph, u, v) # None
                         ELSE GraphMap_get_edge(GM, last'.a[1], last'.b[1]) # None
          IN  /\ u \in DOMAIN graph'.outbound /\ v \in graph'.outbound[u]
              /\ v \in DOMAIN graph'.inbound /\ u \in graph'.inbound[v]
              /\ Graph_get_edge(graph', u, v) = last'.w
              /\ api = "GraphMap" =>
                    GraphMap_get_edge([graph |-> graph', map |-> map'],
                                      last'.a[1], last'.b[1]) = last'.w
              /\ Graph_edge_count(graph') =
                    Graph_edge_count(graph) + (IF existed THEN 0 ELSE 1)
      ]_vars

\* C4 witness: add_edge has just replaced the payload of an existing edge
\* by a different one.
C4_Witness ==
    /\ last.op = "add_edge"
    /\ last.old.edge # None
    /\ last.old.edge # last.w

\* C5: lookups never fault: in every state reached by calls that returned,
\* adj_out and adj_in return a sequence or the absent value for every
\* identity of a Graph and every payload of a GraphMap (get_vertex and
\* get_edge contain no panicking step).
C5_LookupsNeverFault ==
    ~fault =>
        /\ api = "Graph" =>
              \A id \in IssuedIds :
                 /\ ~Graph_adj_out_panics(graph, id)
                 /\ ~Graph_adj_in_panics(graph, id)
        /\ api = "GraphMap" =>
              \A v \in Payloads :
                 /\ ~GraphMap_adj_out_panics(GM, v)
                 /\ ~GraphMap_adj_in_panics(GM, v)

\* C6: every mutation is all-or-nothing: a call that stops with a fault has
\* left vertex storage, edge map, inbound, outbound and content index
\* exactly as they were before it.
C6_AllOrNothing == [][fault' => (graph' = graph /\ map' = map)]_vars

\* Vertex id of g is isolated: indegree and outdegree are 0, and adj_out
\* and adj_in return a present, empty sequence.
Isolated(g, id) ==
    /\ Graph_indegree(g, id) = 0
    /\ Graph_outdegree(g, id) = 0
    /\ ~Graph_adj_out_panics(g, id) /\ Graph_adj_out(g, id) = Some({})
    /\ ~Graph_adj_in_panics(g, id) /\ Graph_adj_in(g, id) = Some({})

\* The same through the GraphMap, for a payload it knows.
IsolatedPayload(gm, vertex) ==
    /\ vertex \in GraphMap_vertices(gm)
    /\ GraphMap_indegree(gm, vertex) = 0
    /\ GraphMap_outdegree(gm, vertex) = 0
    /\ ~GraphMap_adj_out_panics(gm, vertex) /\ GraphMap_adj_out(gm, vertex) = Some({})
    /\ ~GraphMap_adj_in_panics(gm, vertex) /\ GraphMap_adj_in(gm, vertex) = Some({})

\* C7: a vertex is isolated immediately after it is added: after
\* Graph::add_vertex the returned id, after GraphMap::add_vertex of an
\* unknown payload that payload, and, for the vertex that GraphMap::add_edge
\* creates for an unknown payload, at the return of add_or_get_vertex
\* (before the edge is inserted), in every state the GraphMap can be in.
C7_IsolatedOnCreation ==
    /\ (api = "Graph" /\ last.op = "add_vertex") => Isolated(graph, last.ret[1])
    /\ (api = "GraphMap" /\ last.op = "add_vertex" /\ last.old.known = {}) =>
          /\ IsolatedPayload(GM, last.a[1])
          /\ Isolated(graph, map[last.a[1]])
    /\ (api = "GraphMap" /\ ~fault) =>
          \A vertex \in Payloads \ DOMAIN map :
             LET r == GraphMap_add_or_get_vertex(GM, vertex)
             IN  Isolated(r.gm.graph, r.id) /\ IsolatedPayload(r.gm, vertex)

\* C7 witness: GraphMap::add_vertex has just created a payload that was
\* present before with an inbound edge and then removed; the source of that
\* edge still names the old identity in its outbound set.
C7_Witness ==
    /\ api = "GraphMap"
    /\ last.op = "add_vertex" /\ last.old.known = {}
    /\ \E r \in removed :
          /\ r.value = last.a
          /\ \E u \in DOMAIN graph.outbound : r.id \in graph.outbound[u]

\* C8: identities are never aliased: no two identities add_vertex returned
\* are equal, and get_vertex is absent for every identity remove_vertex has
\* been called on, whatever was inserted since.
C8_NeverAliased ==
    /\ \A i \in 1..Len(issued) : \A j \in 1..Len(issued) :
          i # j => issued[i] # issued[j]
    /\ \A r \in removed : Graph_get_vertex(graph, r.id) = None

\* C8 witness: a live vertex occupies the storage slot of a removed one.
C8_Witness ==
    \E i \in 1..Len(issued) : \E j \in 1..Len(issued) :
       /\ i < j
       /\ issued[i].index = issued[j].index
       /\ issued[i] \in {r.id : r \in removed}
       /\ Graph_get_vertex(graph, issued[j]) # None

\* C9: GraphMap::add_vertex(p) with p already present changes nothing:
\* vertex storage (so vertex_count()), the identity of p, the edge map and
\* both adjacency indexes stay as they were.
C9_AddVertexIdempotent ==
    [][(/\ api = "GraphMap"
        /\ last'.op = "add_vertex" /\ steps' = steps + 1
        /\ last'.a[1] \in DOMAIN map) =>
          /\ graph' = graph
          /\ map' = map
          /\ GraphMap_vertex_count([graph |-> graph', map |-> map']) =
                GraphMap_vertex_count(GM)
      ]_vars

\* C9 witness: add_vertex was called with a payload the GraphMap already
\* held, in a graph that has an edge.
C9_Witness ==
    /\ api = "GraphMap"
    /\ last.op = "add_vertex" /\ last.old.known # {}
    /\ GraphMap_edge_count(GM) > 0

\* C10: GraphMap::add_edge((p,q), w) creates the missing endpoints: after
\* it p and q are live vertices, get_edge((p,q)) is w, vertex_count() has
\* grown by the number of distinct endpoints unknown before, every payload
\* known before keeps its identity, and every other edge and adjacency
\* entry is kept.
C10_AddEdgeCreatesEndpoints ==
    [][(api = "GraphMap" /\ last'.op = "add_edge" /\ steps' = steps + 1) =>
          LET from == last'.a[1]
              to   == last'.b[1]
              gm2  == [graph |-> graph', map |-> map']
          IN  /\ {from, to} \subseteq GraphMap_vertices(gm2)
              /\ Graph_get_vertex(graph', map'[from]) = Some(from)
              /\ Graph_get_vertex(graph', map'[to]) = Some(to)
              /\ GraphMap_get_edge(gm2, from, to) = last'.w
              /\ GraphMap_vertex_count(gm2) =
                    GraphMap_vertex_count(GM) + Cardinality({from, to} \ DOMAIN map)
              /\ \A v \in DOMAIN map : map'[v] = map[v]
              /\ \A e \in DOMAIN graph.edges :
                    e # <<map'[from], map'[to]>> =>
                       e \in DOMAIN graph'.edges /\ graph'.edges[e] = graph.edges[e]
              /\ \A u \in DOMAIN graph.outbound :
                    u \in DOMAIN graph'.outbound
                    /\ graph.outbound[u] \subseteq graph'.outbound[u]
              /\ \A u \in DOMAIN graph.inbound :
                    u \in DOMAIN graph'.inbound
                    /\ graph.inbound[u] \subseteq graph'.inbound[u]
      ]_vars

\* C10 witness: add_edge between a known payload, which keeps another edge,
\* and a payload unknown before the call.
C10_Witness ==
    /\ api = "GraphMap"
    /\ last.op = "add_edge"
    /\ Cardinality(last.old.known) = 1
    /\ last.a # last.b
    /\ GraphMap_edge_count(GM) >= 2

\* C11: GraphMap::remove_vertex(p) returns true and cascades the removal
\* exactly when p is a known payload, and returns false otherwise;
\* GraphMap::remove_edge((p,q)) returns true exactly when both p and q are
\* known, whether or not the edge exists; a call that returns false leaves
\* the whole graph state unchanged.
C11_RemovalReturns ==
    [][(api = "GraphMap" /\ steps' = steps + 1) =>
        /\ last'.op = "remove_vertex" =>
              LET p == last'.a[1]
              IN  /\ last'.ret = Some(p \in DOMAIN map)
                  /\ p \in DOMAIN map =>
                        /\ p \notin DOMAIN map'
                        /\ Graph_get_vertex(graph', map[p]) = None
                        /\ \A e \in DOMAIN graph'.edges :
                              e[1] # map[p] /\ e[2] # map[p]
                  /\ p \notin DOMAIN map => (graph' = graph /\ map' = map)
        /\ last'.op = "remove_edge" =>
              LET p == last'.a[1]
                  q == last'.b[1]
              IN  /\ last'.ret = Some(p \in DOMAIN map /\ q \in DOMAIN map)
                  /\ last'.ret = Some(FALSE) => (graph' = graph /\ map' = map)
    ]_vars

\* C11, of the calls that returned only: the return values and the frame of
\* a false return are as stated.
C11_ReturnedRemovalReturns ==
    [][(api = "GraphMap" /\ steps' = steps + 1 /\ ~fault') =>
        /\ last'.op = "remove_vertex" =>
              LET p == last'.a[1]
              IN  /\ last'.ret = Some(p \in DOMAIN map)
                  /\ p \in DOMAIN map =>
                        /\ p \notin DOMAIN map'
                        /\ Graph_get_vertex(graph', map[p]) = None
                        /\ \A e \in DOMAIN graph'.edges :
                              e[1] # map[p] /\ e[2] # map[p]
                  /\ p \notin DOMAIN map => (graph' = graph /\ map' = map)
        /\ last'.op = "remove_edge" =>
              LET p == last'.a[1]
                  q == last'.b[1]
              IN  /\ last'.ret = Some(p \in DOMAIN map /\ q \in DOMAIN map)
                  /\ last'.ret = Some(FALSE) => (graph' = graph /\ map' = map)
    ]_vars

\* The identities a caller can form over the arena's slots: every slot
\* index up to one past the capacity, with every generation up to one past
\* the arena's.
FormableIds ==
    {[index |-> i, generation |-> gen] :
        i \in 0..graph.arena.n, gen \in 0..(graph.arena.generation + 1)}

\* C12: Graph::indegree(id) and Graph::outdegree(id) return 0 for every
\* identity that has no adjacency entry, which is the case of every
\* identity never issued and of every identity removed by a call that
\* returned; GraphMap::indegree(p) and GraphMap::outdegree(p) fault when p
\* is unknown and return the size of the inbound and outbound set of p's
\* vertex when p is known.
C12_DegreeOfMissing ==
    /\ \A id \in FormableIds \cup IssuedIds :
          /\ id \notin DOMAIN graph.inbound => Graph_indegree(graph, id) = 0
          /\ id \notin DOMAIN graph.outbound => Graph_outdegree(graph, id) = 0
    /\ \A id \in FormableIds \ IssuedIds :
          Graph_indegree(graph, id) = 0 /\ Graph_outdegree(graph, id) = 0
    /\ ~fault =>
          \A r \in removed :
             Graph_indegree(graph, r.id) = 0 /\ Graph_outdegree(graph, r.id) = 0
    /\ api = "GraphMap" =>
          \A p \in Payloads :
             /\ GraphMap_indegree_panics(GM, p) <=> p \notin DOMAIN map
             /\ GraphMap_outdegree_panics(GM, p) <=> p \notin DOMAIN map
             /\ p \in DOMAIN map =>
                   /\ map[p] \in DOMAIN graph.inbound
                   /\ map[p] \in DOMAIN graph.outbound
                   /\ GraphMap_indegree(GM, p) = Cardinality(graph.inbound[map[p]])
                   /\ GraphMap_outdegree(GM, p) = Cardinality(graph.outbound[map[p]])

\* C12 witness: a GraphMap where one payload was removed and is now unknown
\* while a known payload has a non-zero degree.
C12_Witness ==
    /\ api = "GraphMap" /\ ~fault
    /\ \E r \in removed :
          /\ r.value[1] \notin DOMAIN map
          /\ GraphMap_indegree_panics(GM, r.value[1])
          /\ Graph_outdegree(graph, r.id) = 0
    /\ \E p \in DOMAIN map :
          GraphMap_indegree(GM, p) + GraphMap_outdegree(GM, p) >= 1

\* The effect C18 states for a step that is Graph::remove_vertex(id): id
\* leaves inbound[to] for every `to` it had an edge to; for every other
\* `from` with an edge to id the edge leaves the edge map while
\* outbound[from] is the same set, id included, so outdegree(from) is the
\* same.
OneSidedCleanup(id) ==
    /\ \A to \in DOMAIN graph.inbound :
          (to # id /\ <<id, to>> \in DOMAIN graph.edges) =>
             (to \in DOMAIN graph'.inbound /\ id \notin graph'.inbound[to])
    /\ \A from \in DOMAIN graph.outbound :
          (from # id /\ <<from, id>> \in DOMAIN graph.edges) =>
             /\ <<from, id>> \notin DOMAIN graph'.edges
             /\ from \in DOMAIN graph'.outbound
             /\ graph'.outbound[from] = graph.outbound[from]
             /\ id \in graph'.outbound[from]
             /\ Graph_outdegree(graph', from) = Graph_outdegree(graph, from)

\* The identity a remove_vertex step removes, as an Option: the argument of
\* Graph::remove_vertex, or the identity GraphMap::remove_vertex looks up.
RemovedId ==
    IF api = "Graph" THEN last'.a
    ELSE IF last'.a[1] \in DOMAIN map THEN Some(map[last'.a[1]]) ELSE None

\* C18: remove_vertex(id) cleans only one side of the neighbours' indexes:
\* id leaves inbound[to] for every `to` it had an edge to; for every
\* from # id with an edge to id, the edge (from,id) leaves the edge map but
\* outbound[from] is unchanged and still contains id, so outdegree(from) is
\* what it was before the removal.
C18_OneSidedCleanup ==
    [][(steps' = steps + 1 /\ last'.op = "remove_vertex" /\ RemovedId # None) =>
          OneSidedCleanup(RemovedId[1])]_vars

\* C18, of the calls that returned only.
C18_ReturnedOneSidedCleanup ==
    [][(steps' = steps + 1 /\ last'.op = "remove_vertex" /\ RemovedId # None
          /\ ~fault') =>
          OneSidedCleanup(RemovedId[1])]_vars

----------------------------------------------------------------------------
(* Traversals of a GraphMap (src/src/traversal.rs).  A HashMap or HashSet   *)
(* yields its elements in an order the program does not control: a call     *)
(* takes an order `ord`, a sequence listing every payload once, and each    *)
(* iteration of the call yields its elements as they stand in ord.          *)

\* The vertex payloads of the traversal runs.
QueryPayloads == {1, 2, 3}

\* Every iteration order over the payloads.
Orders ==
    {ord \in [1..Cardinality(QueryPayloads) -> QueryPayloads] :
        \A i, j \in DOMAIN ord : ord[i] = ord[j] => i = j}

\* The elements of the set S in the order ord.
InOrder(S, ord) == SelectSeq(ord, LAMBDA x : x \in S)

\* Whether GraphMap::edges() panics: an unwrap of get_vertex on an endpoint
\* of an edge key.
GraphMap_edges_panics(gm) ==
    \E e \in DOMAIN gm.graph.edges :
       Graph_get_vertex(gm.graph, e[1]) = None \/ Graph_get_vertex(gm.graph, e[2]) = None

\* GraphMap::edges(), when it does not panic: the triples <<from, to, weight>>
\* over payloads.
GraphMap_edges(gm) ==
    {<<Graph_get_vertex(gm.graph, e[1])[1], Graph_get_vertex(gm.graph, e[2])[1],
       gm.graph.edges[e]>> : e \in DOMAIN gm.graph.edges}

\* The while loop of bfs: pop the front of the queue, push it on nodes, and
\* queue every outbound neighbour not visited yet.  adj_out(current).unwrap()
\* panics when adj_out is absent or itself panics.
RECURSIVE BfsLoop(_, _, _, _, _)
BfsLoop(gm, ord, queue, visited, nodes) ==
    IF queue = << >> THEN [panicked |-> FALSE, nodes |-> nodes]
    ELSE LET current == Head(queue)
             pushed  == Append(nodes, current)
         IN  IF GraphMap_adj_out_panics(gm, current)
                  \/ GraphMap_adj_out(gm, current) = None
             THEN [panicked |-> TRUE, nodes |-> pushed]
             ELSE LET adj == {p[1] : p \in GraphMap_adj_out(gm, current)[1]}
                  IN  BfsLoop(gm, ord, Tail(queue) \o InOrder(adj \ visited, ord),
                              visited \cup adj, pushed)

\* GraphMap::bfs(start) -> Vec<V>: the outcome [panicked, nodes].
bfs(gm, start, ord) == BfsLoop(gm, ord, <<start>>, {start}, << >>)

\* The inner loop of connected_components adding each edge from the
\* neighbour to the node.
RECURSIVE AddOutEdges_reversed(_, _, _, _)
AddOutEdges_reversed(component, node, adj, targets) ==
    IF targets = << >> THEN component
    ELSE LET w == (CHOOSE p \in adj : p[1] = Head(targets))[2]
         IN  AddOutEdges_reversed(GraphMap_add_edge(component, Head(targets), node, w),
                                  node, adj, Tail(targets))

\* The inner loop of connected_components over adj_out(node): one add_edge
\* per outbound neighbour, on the component graph.
RECURSIVE AddOutEdges(_, _, _, _)
AddOutEdges(component, node, adj, targets) ==
    IF targets = << >> THEN component
    ELSE LET w == (CHOOSE p \in adj : p[1] = Head(targets))[2]
         IN  AddOutEdges(GraphMap_add_edge(component, node, Head(targets), w),
                         node, adj, Tail(targets))

\* The loop of connected_components over the nodes bfs returned: add_vertex
\* of the node, then its outbound edges.  Yields [panicked, graph].
RECURSIVE BuildComponent(_, _, _, _)
BuildComponent(gm, ord, nodes, component) ==
    IF nodes = << >> THEN [panicked |-> FALSE, graph |-> component]
    ELSE LET node  == Head(nodes)
             added == GraphMap_add_vertex(component, node)
         IN  IF GraphMap_adj_out_panics(gm, node) \/ GraphMap_adj_out(gm, node) = None
             THEN [panicked |-> TRUE, graph |-> added]
             ELSE LET adj == GraphMap_adj_out(gm, node)[1]
                  IN  BuildComponent(gm, ord, Tail(nodes),
                         AddOutEdges(added, node, adj,
                                     InOrder({p[1] : p \in adj}, ord)))

\* The outer loop of connected_components over self.vertices(): a vertex
\* not visited yet seeds a bfs, whose nodes become visited and make one
\* component graph.  Yields [panicked, components].
RECURSIVE ComponentsLoop(_, _, _, _, _)
ComponentsLoop(gm, ord, vertices, visited, components) ==
    IF vertices = << >> THEN [panicked |-> FALSE, components |-> components]
    ELSE IF Head(vertices) \in visited
    THEN ComponentsLoop(gm, ord, Tail(vertices), visited, components)
    ELSE LET component == bfs(gm, Head(vertices), ord)
             built == BuildComponent(gm, ord, component.nodes, GraphMap_new)
         IN  IF component.panicked \/ built.panicked
             THEN [panicked |-> TRUE, components |-> components]
             ELSE ComponentsLoop(gm, ord, Tail(vertices),
                     visited \cup {component.nodes[i] : i \in DOMAIN component.nodes},
                     Append(components, built.graph))

\* GraphMap::connected_components() -> Vec<GraphMap<V,E>>: the outcome
\* [panicked, components].
connected_components(gm, ord) ==
    ComponentsLoop(gm, ord, InOrder(GraphMap_vertices(gm), ord), {}, << >>)

\* The payloads reachable from the payloads S along the edges `edges`
\* (triples <<from, to, weight>>), S included.
RECURSIVE ReachFrom(_, _)
ReachFrom(edges, S) ==
    LET T == S \cup {e[2] : e \in {x \in edges : x[1] \in S}}
    IN  IF T = S THEN S ELSE ReachFrom(edges, T)

\* The list nodes holds start first and then every payload reachable from
\* start along the edges of gm, each exactly once, and nothing else.
ListsReachable(gm, start, nodes) ==
    /\ nodes # << >> /\ nodes[1] = start
    /\ \A i, j \in DOMAIN nodes : nodes[i] = nodes[j] => i = j
    /\ {nodes[i] : i \in DOMAIN nodes} = ReachFrom(GraphMap_edges(gm), {start})

\* C13: in every GraphMap reached by add_vertex, add_edge, remove_edge and
\* remove_vertex calls that returned, for every start payload it holds and
\* every iteration order, bfs(start) returns, and returns a list with start
\* first and every vertex reachable from start along outbound edges exactly
\* once, and no other vertex.
C13_BfsReachable ==
    (api = "GraphMap" /\ ~fault) =>
       \A start \in DOMAIN map, ord \in Orders :
          LET r == bfs(GM, start, ord)
          IN  ~r.panicked /\ ListsReachable(GM, start, r.nodes)

\* C13, of the GraphMaps no remove_vertex call has touched.
C13_BfsReachableWithoutRemoval ==
    (api = "GraphMap" /\ ~fault /\ removed = {}) =>
       \A start \in DOMAIN map, ord \in Orders :
          LET r == bfs(GM, start, ord)
          IN  ~r.panicked /\ ListsReachable(GM, start, r.nodes)

----------------------------------------------------------------------------
(* u32 arithmetic of dijkstra.  A u32 is held as two 16-bit halves          *)
(* <<high, low>>.  An addition that overflows panics in a build with        *)
(* overflow checks (debug) and wraps in a build without them (release).     *)

\* 2^16: the size of one half.
U32Half == 65536

\* The u32 of a small number n.
U32(n) == <<n \div U32Half, n % U32Half>>

\* u32::MAX
U32_MAX == <<U32Half - 1, U32Half - 1>>

\* a < b
U32Lt(a, b) == a[1] < b[1] \/ (a[1] = b[1] /\ a[2] < b[2])

\* The mathematical sum a + b, whose high half may not fit 16 bits.
WideAdd(a, b) ==
    LET low == a[2] + b[2]
    IN  <<a[1] + b[1] + (low \div U32Half), low % U32Half>>

\* Whether the u32 addition a + b overflows.
U32Overflows(a, b) == WideAdd(a, b)[1] >= U32Half

\* The wrapping u32 sum of a and b.
U32WrappingAdd(a, b) == <<WideAdd(a, b)[1] % U32Half, WideAdd(a, b)[2]>>

\* BinaryHeap<Reverse<(u32, u32)>>::pop: the least (dist, node) pair.
HeapMin(queue) ==
    CHOOSE q \in queue :
       \A o \in queue :
          ~(U32Lt(o[1], q[1]) \/ (o[1] = q[1] /\ o[2] < q[2]))

\* The for loop of dijkstra over adj_in(node), on the locals l, visiting the
\* predecessors in the order `prevs`: an edge relaxes prev when prev has no
\* distance yet or dist[node] + cost is less than dist[prev].  Yields
\* [locals, panicked].  Whether the build checks overflow is `checks`; the
\* first addition that overflows records it in l.overflow_checks, and then
\* panics (checks) or wraps (no checks), as every later one does.
RECURSIVE RelaxLoop(_, _, _, _, _)
RelaxLoop(l, node, adj, prevs, checks) ==
    IF prevs = << >> THEN [locals |-> l, panicked |-> FALSE]
    ELSE LET prev == Head(prevs)
             cost == (CHOOSE p \in adj : p[1] = prev)[2]
             sum  == U32WrappingAdd(l.dist[node], cost)
             over == U32Overflows(l.dist[node], cost)
             m    == IF over /\ l.overflow_checks = None
                     THEN [l EXCEPT !.overflow_checks = Some(checks)]
                     ELSE l
         IN  IF over /\ m.overflow_checks[1]
             THEN [locals |-> m, panicked |-> TRUE]
             ELSE IF prev \notin DOMAIN m.dist \/ U32Lt(sum, m.dist[prev])
             THEN RelaxLoop([m EXCEPT !.dist = Put(m.dist, prev, sum),
                                      !.queue = m.queue \cup {<<sum, prev>>},
                                      !.next = Put(m.next, prev, node)],
                            node, adj, Tail(prevs), checks)
             ELSE RelaxLoop(m, node, adj, Tail(prevs), checks)

\* Whether adj_in(node).unwrap() panics in dijkstra: node is not a vertex,
\* or adj_in itself panics.
DijkstraAdjInPanics(gm, node) ==
    GraphMap_adj_in_panics(gm, node) \/ GraphMap_adj_in(gm, node) = None

\* One iteration of `while !queue.is_empty()` in dijkstra: pop the least
\* pair and relax the inbound edges of its node, in the order prevs.
DijkstraPop(gm, l, prevs, checks) ==
    LET node == HeapMin(l.queue)[2]
        rest == [l EXCEPT !.queue = l.queue \ {HeapMin(l.queue)},
                          !.pops = l.pops + 1]
    IN  IF DijkstraAdjInPanics(gm, node)
        THEN [locals |-> rest, panicked |-> TRUE]
        ELSE RelaxLoop(rest, node, GraphMap_adj_in(gm, node)[1], prevs, checks)

\* The locals of dijkstra(start, end) when it enters the while loop.
\* overflow_checks is None until an addition overflows; pops counts the
\* iterations of the while loop.
DijkstraLocals(start, end) ==
    [queue |-> {<<U32(0), end>>},
     dist  |-> Put(EmptyMap, end, U32(0)),
     next  |-> EmptyMap,
     path  |-> << >>,
     curr  |-> start,
     overflow_checks |-> None,
     pops  |-> 0]

----------------------------------------------------------------------------
(* The traversal runs: a GraphMap<u32,u32> is built by add_edge and          *)
(* add_vertex calls, then one traversal is called on it.  bfs and            *)
(* connected_components run in one step; dijkstra runs one loop iteration    *)
(* per step.                                                                  *)

\* Number of add_edge / add_vertex calls that build the graph.
MaxQueryOps == 3

\* Iterations of dijkstra's while loop the model follows: a run that needs
\* more is left where it stands.
MaxPops == 6

\* Entries of dijkstra's path vector the model keeps; a longer path is cut
\* to its first MaxPath entries.
MaxPath == 4

\* The edge weights of the traversal runs: 1 and u32::MAX.
QueryWeights == {U32(1), U32_MAX}

InitQuery == Init /\ api = "GraphMap"

\* add_edge while the graph is built.  The edges are added in increasing
\* order of their pair, before the isolated vertices, so that each graph is
\* built once.
BuildAddEdge(from, to, weight) ==
    /\ run.pc = "idle" /\ steps < MaxQueryOps
    /\ last.op \in {"new", "add_edge"}
    /\ last.op = "add_edge" =>
          (last.a[1] < from \/ (last.a[1] = from /\ last.b[1] < to))
    /\ MapAddEdge(from, to, weight)

\* add_vertex of an unknown payload while the graph is built, in increasing
\* order of the payloads.
BuildAddVertex(vertex) ==
    /\ run.pc = "idle" /\ steps < MaxQueryOps
    /\ vertex \notin DOMAIN map
    /\ last.op = "add_vertex" => last.a[1] < vertex
    /\ MapAddVertex(vertex)

\* A call of bfs(start).
CallBfs(start, ord) ==
    /\ api = "GraphMap" /\ ~fault /\ run.pc = "idle"
    /\ LET r == bfs(GM, start, ord)
       IN  /\ run' = Run("bfs", IF r.panicked THEN "panicked" ELSE "done",
                         <<start, ord>>, << >>,
                         IF r.panicked THEN None ELSE Some(r.nodes))
           /\ fault' = r.panicked
    /\ UNCHANGED <<api, graph, map, last, issued, removed, steps>>

\* A call of connected_components().
CallConnectedComponents(ord) ==
    /\ api = "GraphMap" /\ ~fault /\ run.pc = "idle"
    /\ LET r == connected_components(GM, ord)
       IN  /\ run' = Run("connected_components",
                         IF r.panicked THEN "panicked" ELSE "done",
                         <<ord>>, << >>,
                         IF r.panicked THEN None ELSE Some(r.components))
           /\ fault' = r.panicked
    /\ UNCHANGED <<api, graph, map, last, issued, removed, steps>>

\* dijkstra(start, end) is called and reaches its while loop.
DijkstraStart(start, end) ==
    /\ api = "GraphMap" /\ ~fault /\ run.pc = "idle"
    /\ run' = Run("dijkstra", "relax", <<start, end>>,
                  DijkstraLocals(start, end), None)
    /\ UNCHANGED <<api, graph, map, fault, last, issued, removed, steps>>

\* Every sequence that lists each element of S once.
PermsOf(S) ==
    {s \in [1..Cardinality(S) -> S] : \A i, j \in DOMAIN s : s[i] = s[j] => i = j}

\* Whether the while loop of the running dijkstra call has an iteration to
\* make that the model follows.
RelaxEnabled ==
    /\ run.op = "dijkstra" /\ run.pc = "relax"
    /\ run.locals.queue # {}
    /\ run.locals.pops < MaxPops

\* The orders in which the next iteration of the while loop may meet the
\* predecessors of the node it pops.
RelaxOrders ==
    IF ~RelaxEnabled THEN {}
    ELSE LET node == HeapMin(run.locals.queue)[2]
         IN  IF DijkstraAdjInPanics(GM, node) THEN {<< >>}
             ELSE PermsOf({p[1] : p \in GraphMap_adj_in(GM, node)[1]})

\* The builds the next iteration of the while loop may show itself to run
\* in: either one when this iteration meets the call's first overflowing
\* addition, otherwise the one already met (or no matter which).
RelaxBuilds ==
    IF ~RelaxEnabled THEN {}
    ELSE LET l    == run.locals
             node == HeapMin(l.queue)[2]
         IN  IF l.overflow_checks # None THEN {l.overflow_checks[1]}
             ELSE IF /\ ~DijkstraAdjInPanics(GM, node)
                     /\ \E p \in GraphMap_adj_in(GM, node)[1] :
                           U32Overflows(l.dist[node], p[2])
             THEN BOOLEAN
             ELSE {FALSE}

\* One iteration of the while loop of dijkstra.
DijkstraRelax(prevs, checks) ==
    /\ RelaxEnabled
    /\ LET r == DijkstraPop(GM, run.locals, prevs, checks)
       IN  /\ run' = [run EXCEPT !.locals = r.locals,
                                 !.pc = IF r.panicked THEN "panicked" ELSE "relax"]
           /\ fault' = r.panicked
    /\ UNCHANGED <<api, graph, map, last, issued, removed, steps>>

\* The queue is empty: dijkstra returns None when start has no distance and
\* goes on to rebuild the path otherwise.
DijkstraCheck ==
    /\ run.op = "dijkstra" /\ run.pc = "relax" /\ run.locals.queue = {}
    /\ run' = IF run.args[1] \notin DOMAIN run.locals.dist
              THEN [run EXCEPT !.pc = "done", !.ret = Some(None)]
              ELSE [run EXCEPT !.pc = "walk"]
    /\ UNCHANGED <<api, graph, map, fault, last, issued, removed, steps>>

\* Vec::push on the path, cut at MaxPath entries.
PathPush(path, v) == IF Len(path) < MaxPath THEN Append(path, v) ELSE path

\* One iteration of `while curr != end` of dijkstra, or, when curr is end,
\* the final push and the return of Some((path, dist[start])).  next[&curr]
\* panics when curr has no entry.
DijkstraWalk ==
    /\ run.op = "dijkstra" /\ run.pc = "walk"
    /\ LET l == run.locals
       IN  IF l.curr = run.args[2]
           THEN /\ run' = [run EXCEPT
                             !.pc = "done",
                             !.locals.path = PathPush(l.path, run.args[2]),
                             !.ret = Some(Some(<<PathPush(l.path, run.args[2]),
                                                 l.dist[run.args[1]]>>))]
                /\ fault' = fault
           ELSE IF l.curr \notin DOMAIN l.next
           THEN /\ run' = [run EXCEPT !.pc = "panicked",
                                      !.locals.path = PathPush(l.path, l.curr)]
                /\ fault' = TRUE
           ELSE /\ run' = [run EXCEPT !.locals.path = PathPush(l.path, l.curr),
                                      !.locals.curr = l.next[l.curr]]
                /\ fault' = fault
    /\ UNCHANGED <<api, graph, map, last, issued, removed, steps>>

NextQuery ==
    \/ \E from \in QueryPayloads, to \in QueryPayloads, weight \in QueryWeights :
          BuildAddEdge(from, to, weight)
    \/ \E vertex \in QueryPayloads : BuildAddVertex(vertex)
    \/ \E start \in QueryPayloads, ord \in Orders : CallBfs(start, ord)
    \/ \E ord \in Orders : CallConnectedComponents(ord)
    \/ \E start \in QueryPayloads, end \in QueryPayloads : DijkstraStart(start, end)
    \/ \E prevs \in RelaxOrders, checks \in RelaxBuilds : DijkstraRelax(prevs, checks)
    \/ DijkstraCheck
    \/ DijkstraWalk

SpecQuery == InitQuery /\ [][NextQuery]_vars


----------------------------------------------------------------------------
(* Properties of the traversals *)

\* C14: for every GraphMap with directed edges and every order in which
\* vertices() yields the vertices, the vertex sets of the graphs
\* connected_components() returns have the whole vertex set as their union
\* and are pairwise disjoint.
C14_ComponentsPartition ==
    (run.op = "connected_components" /\ run.pc = "done") =>
       LET components == run.ret[1]
       IN  /\ UNION {GraphMap_vertices(components[i]) : i \in DOMAIN components}
                 = GraphMap_vertices(GM)
           /\ \A i, j \in DOMAIN components :
                 i # j => GraphMap_vertices(components[i])
                             \cap GraphMap_vertices(components[j]) = {}

\* C14, the union alone: every vertex lies in some returned graph and the
\* returned graphs hold vertices of the graph only.
C14_ComponentsCover ==
    (run.op = "connected_components" /\ run.pc = "done") =>
       LET components == run.ret[1]
       IN  UNION {GraphMap_vertices(components[i]) : i \in DOMAIN components}
              = GraphMap_vertices(GM)

\* Whether the list p of payloads is a directed path of gm: each consecutive
\* pair is an edge.
IsPath(gm, p) ==
    /\ p # << >>
    /\ \A i \in 1..(Len(p) - 1) : GraphMap_get_edge(gm, p[i], p[i + 1]) # None

\* The total weight of the directed path p, as a mathematical sum.
RECURSIVE PathWeight(_, _)
PathWeight(gm, p) ==
    IF Len(p) <= 1 THEN U32(0)
    ELSE WideAdd(GraphMap_get_edge(gm, p[1], p[2])[1], PathWeight(gm, Tail(p)))

\* The directed paths of gm from start to end that repeat no vertex (with
\* weights that are not negative, no other path weighs less than all of
\* these).
SimplePaths(gm, start, end) ==
    {p \in UNION {[1..n -> GraphMap_vertices(gm)] :
                    n \in 1..Cardinality(GraphMap_vertices(gm))} :
        /\ p[1] = start /\ p[Len(p)] = end
        /\ \A i, j \in DOMAIN p : p[i] = p[j] => i = j
        /\ IsPath(gm, p)}

\* What C15 states of a dijkstra(start, end) call that has ended, with
\* outcome `r` (the run): it returned a path from start to end whose
\* consecutive pairs are edges, with its total weight, which no directed
\* path undercuts.
ShortestPathReturned(gm, r) ==
    /\ r.pc = "done"
    /\ r.ret[1] # None
    /\ LET path == r.ret[1][1][1]
           cost == r.ret[1][1][2]
       IN  /\ path[1] = r.args[1] /\ path[Len(path)] = r.args[2]
           /\ IsPath(gm, path)
           /\ cost = PathWeight(gm, path)
           /\ \A p \in SimplePaths(gm, r.args[1], r.args[2]) :
                 ~U32Lt(PathWeight(gm, p), cost)
           /\ r.args[1] = r.args[2] => (path = <<r.args[1]>> /\ cost = U32(0))

\* Whether the dijkstra call has ended: returned or panicked.
DijkstraEnded == run.op = "dijkstra" /\ run.pc \in {"done", "panicked"}

\* C15: for every GraphMap<u32,u32> and vertices start, end with a directed
\* path from start to end, dijkstra(start, end) returns (path, cost): path
\* begins with start, ends with end, each consecutive pair is an edge, cost
\* is the sum of the weights along path, and no directed path from start to
\* end weighs less; when start = end the result is ([start], 0).
C15_ShortestPath ==
    (/\ DijkstraEnded
     /\ run.args[1] \in GraphMap_vertices(GM)
     /\ run.args[2] \in GraphMap_vertices(GM)
     /\ SimplePaths(GM, run.args[1], run.args[2]) # {})
       => ShortestPathReturned(GM, run)

\* C15, of the calls in which no addition overflowed.
C15_ShortestPathWithoutOverflow ==
    (/\ DijkstraEnded
     /\ run.locals.overflow_checks = None
     /\ run.args[1] \in GraphMap_vertices(GM)
     /\ run.args[2] \in GraphMap_vertices(GM)
     /\ SimplePaths(GM, run.args[1], run.args[2]) # {})
       => ShortestPathReturned(GM, run)

\* What C16 states of the ended dijkstra call r on gm: it returned, and
\* returned the absent result exactly when end is a vertex that no directed
\* path from start reaches.
AbsentExactlyWhenNoPath(gm, r) ==
    LET unreachable == /\ r.args[2] \in GraphMap_vertices(gm)
                       /\ SimplePaths(gm, r.args[1], r.args[2]) = {}
    IN  /\ unreachable => (r.pc = "done" /\ r.ret = Some(None))
        /\ (r.pc = "done" /\ r.ret = Some(None)) => unreachable

\* C16: dijkstra(start, end) returns the absent result exactly when end is a
\* vertex of the graph and no directed path leads from start to end, also
\* when end is an isolated vertex and when start is not a vertex at all: it
\* never returns a path in that case and never returns absent when a path
\* exists.
C16_AbsentWhenNoPath ==
    DijkstraEnded => AbsentExactlyWhenNoPath(GM, run)

\* C16, of the calls in which no addition overflowed.
C16_AbsentWhenNoPathWithoutOverflow ==
    (DijkstraEnded /\ run.locals.overflow_checks = None) =>
       AbsentExactlyWhenNoPath(GM, run)

\* C16, of the builds without overflow checks.
C16_AbsentWhenNoPathWrapping ==
    (DijkstraEnded /\ run.locals.overflow_checks # Some(TRUE)) =>
       AbsentExactlyWhenNoPath(GM, run)

\* The model has stopped following the running dijkstra call: its while
\* loop has made MaxPops iterations and has more to make.
RunCutShort ==
    run.op = "dijkstra" /\ run.pc = "relax" /\ run.locals.queue # {}
       /\ run.locals.pops >= MaxPops

\* C19: dijkstra terminates for every finite GraphMap<u32,u32> that holds
\* end, cycles and self-loops included: the while loop ends when the queue
\* is exhausted, and the walk that rebuilds the path ends because following
\* next from start never meets a vertex twice and reaches end.  next does
\* not change during the walk, so a walk that meets a vertex twice never
\* ends.
C19_DijkstraTerminates ==
    (/\ run.op = "dijkstra" /\ run.pc = "walk"
     /\ run.args[2] \in GraphMap_vertices(GM))
       => \A i \in DOMAIN run.locals.path : run.locals.path[i] # run.locals.curr

\* C19, of the calls in which no addition overflowed: the while loop ends
\* within the iterations the model follows and the walk never cycles.
C19_TerminatesWithoutOverflow ==
    (run.op = "dijkstra" /\ run.locals.overflow_checks = None) =>
       /\ ~RunCutShort
       /\ run.pc = "walk" =>
             \A i \in DOMAIN run.locals.path : run.locals.path[i] # run.locals.curr

\* C20: each graph connected_components() returns is, for some seed vertex,
\* the graph whose vertices are those bfs(seed) lists and whose edges are
\* exactly the edges of the original graph that start at one of them, with
\* the same payloads: building it with add_edge brings in no vertex outside
\* bfs(seed).
C20_ComponentGraphs ==
    (run.op = "connected_components" /\ run.pc = "done") =>
       \A i \in DOMAIN run.ret[1] :
          LET component == run.ret[1][i]
          IN  /\ ~GraphMap_edges_panics(component)
              /\ \E seed \in GraphMap_vertices(GM) :
                    LET r == bfs(GM, seed, run.args[1])
                        nodes == {r.nodes[k] : k \in DOMAIN r.nodes}
                    IN  /\ ~r.panicked
                        /\ GraphMap_vertices(component) = nodes
                        /\ GraphMap_edges(component)
                              = {e \in GraphMap_edges(GM) : e[1] \in nodes}

\* C20 witness: connected_components() returned two graphs or more, one of
\* them with an edge between two vertices.
C20_Witness ==
    /\ run.op = "connected_components" /\ run.pc = "done"
    /\ Len(run.ret[1]) >= 2
    /\ \E i \in DOMAIN run.ret[1] :
          \E e \in GraphMap_edges(run.ret[1][i]) : e[1] # e[2]

----------------------------------------------------------------------------
(* The file format (src/src/main.rs).  A file is a sequence of lines, a     *)
(* line is the sequence of its tokens (what split(" ") yields), and a token *)
(* is the sequence of its decimal digits.                                   *)

\* format!("{}", n) for a u32
RECURSIVE FormatU32(_)
FormatU32(n) == IF n < 10 THEN <<n>> ELSE Append(FormatU32(n \div 10), n % 10)

\* str::parse::<u32>(token): None when the token is empty.
RECURSIVE ParseDigits(_)
ParseDigits(token) ==
    IF token = << >> THEN 0
    ELSE 10 * ParseDigits(SubSeq(token, 1, Len(token) - 1)) + token[Len(token)]

ParseU32(token) == IF token = << >> THEN None ELSE Some(ParseDigits(token))

\* The lines write_graph writes for the edges that leave the vertices
\* `froms`, in the order ord: "{origin} {target} {cost}".
RECURSIVE EdgeLines(_, _, _)
EdgeLines(gm, froms, ord) ==
    IF froms = << >> THEN << >>
    ELSE LET from == Head(froms)
             out  == {e \in GraphMap_edges(gm) : e[1] = from}
             tos  == InOrder({e[2] : e \in out}, ord)
         IN  [i \in DOMAIN tos |->
                 <<FormatU32(from), FormatU32(tos[i]),
                   FormatU32((CHOOSE e \in out : e[2] = tos[i])[3])>>]
             \o EdgeLines(gm, Tail(froms), ord)

\* write_graph(writer, graph): the header "{vertex_count} {edge_count}", one
\* line per edge, then one line "{v}" per vertex whose outdegree and
\* indegree are both 0.
write_graph(gm, ord) ==
    LET vertices == InOrder(GraphMap_vertices(gm), ord)
        isolated == SelectSeq(vertices,
                       LAMBDA v : GraphMap_outdegree(gm, v) = 0
                                     /\ GraphMap_indegree(gm, v) = 0)
    IN  <<<<FormatU32(GraphMap_vertex_count(gm)), FormatU32(GraphMap_edge_count(gm))>>>>
        \o EdgeLines(gm, vertices, ord)
        \o [i \in DOMAIN isolated |-> <<FormatU32(isolated[i])>>]

\* The loop of read_graph over 0..nodes: add_vertex(v) for v = from .. nodes-1.
RECURSIVE ReadVertices(_, _, _)
ReadVertices(gm, v, nodes) ==
    IF v >= nodes THEN gm
    ELSE ReadVertices(GraphMap_add_vertex(gm, v), v + 1, nodes)

\* The loop of read_graph over lines[1..]: each line is split and its first
\* three tokens parsed into an edge.  line[1] or line[2] panics on a line
\* with fewer tokens, unwrap panics on a token that does not parse.  Yields
\* [gm, panicked].
RECURSIVE ReadEdges(_, _, _)
ReadEdges(gm, lines, undirected) ==
    IF lines = << >> THEN [gm |-> gm, panicked |-> FALSE]
    ELSE LET line == Head(lines)
         IN  IF Len(line) < 3 \/ \E i \in 1..3 : ParseU32(line[i]) = None
             THEN [gm |-> gm, panicked |-> TRUE]
             ELSE LET origin == ParseU32(line[1])[1]
                      target == ParseU32(line[2])[1]
                      cost   == ParseU32(line[3])[1]
                      one    == GraphMap_add_edge(gm, origin, target, cost)
                  IN  ReadEdges(IF undirected
                                THEN GraphMap_add_edge(one, target, origin, cost)
                                ELSE one,
                                Tail(lines), undirected)

\* read_graph(path, undirected) on the file `lines`: vertices 0..nodes-1
\* from the first token of the first line, then one edge per later line.
\* Yields [gm, panicked].
read_graph(lines, undirected) ==
    IF lines = << >> \/ Head(lines) = << >> \/ ParseU32(Head(lines)[1]) = None
    THEN [gm |-> GraphMap_new, panicked |-> TRUE]
    ELSE ReadEdges(ReadVertices(GraphMap_new, 0, ParseU32(Head(lines)[1])[1]),
                   Tail(lines), undirected)

\* C17: the file write_graph writes for a GraphMap<u32,u32>, read back by
\* read_graph with undirected = false, gives a graph with the same vertex
\* set, the same edge set and the same edge payloads, also when the graph
\* has isolated vertices and when its vertex payloads are not exactly
\* 0..vertex_count-1.
C17_RoundTrip ==
    (api = "GraphMap" /\ ~fault) =>
       \A ord \in Orders :
          LET r == read_graph(write_graph(GM, ord), FALSE)
          IN  /\ ~r.panicked
              /\ GraphMap_vertices(r.gm) = GraphMap_vertices(GM)
              /\ GraphMap_edges(r.gm) = GraphMap_edges(GM)

\* C17, without the vertex set: when read_graph returns, the graph it read
\* has the edges of the graph written, with their payloads.
C17_RoundTripEdges ==
    (api = "GraphMap" /\ ~fault) =>
       \A ord \in Orders :
          LET r == read_graph(write_graph(GM, ord), FALSE)
          IN  ~r.panicked => GraphMap_edges(r.gm) = GraphMap_edges(GM)
----------------------------------------------------------------------------
(* The inbound index and the edge map of a GraphMap *)

\* The keys of g's edge map that end in vertex v.
EdgesInto(g, v) == {e \in DOMAIN g.edges : e[2] = v}

\* The inbound index and the edge map of gm are exact: both ends of every
\* key of the edge map are live, and inbound[v] of every live vertex v is
\* the set of the sources of the edges into v.
InboundExact(gm) ==
    LET g == gm.graph
    IN  /\ \A e \in DOMAIN g.edges :
              e[1] \in ArenaIds(g.arena) /\ e[2] \in ArenaIds(g.arena)
        /\ \A v \in ArenaIds(g.arena) :
              /\ v \in DOMAIN g.inbound
              /\ g.inbound[v] = {e[1] : e \in EdgesInto(g, v)}

\* What the inbound-side queries of gm answer: indegree(v) is the number of
\* edges into v and adj_in(v) returns their sources and payloads without a
\* panic, for every payload v (absent for an unknown one); edges() returns
\* without a panic one triple per key of the edge map, and edge_count() is
\* the number of those triples.
InboundQueriesExact(gm) ==
    LET g == gm.graph
    IN  /\ \A v \in DOMAIN gm.map :
              /\ ~GraphMap_indegree_panics(gm, v)
              /\ GraphMap_indegree(gm, v) = Cardinality(EdgesInto(g, gm.map[v]))
              /\ ~GraphMap_adj_in_panics(gm, v)
              /\ GraphMap_adj_in(gm, v) =
                    Some({<<Graph_get_vertex(g, e[1])[1], g.edges[e]>> :
                             e \in EdgesInto(g, gm.map[v])})
        /\ \A v \in Payloads \ DOMAIN gm.map :
              ~GraphMap_adj_in_panics(gm, v) /\ GraphMap_adj_in(gm, v) = None
        /\ ~GraphMap_edges_panics(gm)
        /\ Cardinality(GraphMap_edges(gm)) = Cardinality(DOMAIN g.edges)
        /\ GraphMap_edge_count(gm) = Cardinality(GraphMap_edges(gm))
        /\ \A t \in GraphMap_edges(gm) :
              {t[1], t[2]} \subseteq GraphMap_vertices(gm)
              /\ GraphMap_get_edge(gm, t[1], t[2]) = Some(t[3])

\* C21: in every state a GraphMap reaches by add_vertex, add_edge,
\* remove_edge and remove_vertex calls that all returned, the inbound index
\* and the edge map are exact: both ends of every key of the edge map are
\* live and inbound[v] of every live vertex v is exactly the set of u with
\* (u,v) in the edge map; so indegree(v) is the number of edges into v, and
\* adj_in(v), edges() and edge_count() neither panic nor over-count, also
\* after vertices have been removed.
C21_InboundExact ==
    (api = "GraphMap" /\ ~fault) => (InboundExact(GM) /\ InboundQueriesExact(GM))

\* C21 witness: a GraphMap whose calls all returned, in which a removed
\* vertex is still a member of the outbound set of a live vertex that has
\* an edge to another, live vertex.
C21_Witness ==
    /\ api = "GraphMap" /\ ~fault
    /\ \E u \in ArenaIds(graph.arena) :
          /\ u \in DOMAIN graph.outbound
          /\ graph.outbound[u] \ ArenaIds(graph.arena) # {}
          /\ \E v \in ArenaIds(graph.arena) : <<u, v>> \in DOMAIN graph.edges

====
